---- MODULE Spec2Model ----
(***************************************************************************)
(* pitchfork-api: the expiring disk cache (utils/cache.py) and the client  *)
(* facade's cache-aside read path (client.py).                             *)
(*                                                                         *)
(* Keys and file names are sequences of one-character strings, so that the *)
(* key-to-path mapping is computed character by character as the code does.*)
(* The file system is a function from file names of the cache directory to *)
(* file contents.  Time is an integer clock (time.time()).                 *)
(*                                                                         *)
(* Operating-system faults (permission errors, full disk) are not          *)
(* modelled: a write fails exactly when the value cannot be pickled, and a *)
(* file fails to load exactly when its bytes are not a complete pickled    *)
(* entry.                                                                  *)
(***************************************************************************)
EXTENDS Integers, Sequences, FiniteSets, TLC

\* ------------------------------------------------------------------ bounds
Expiry == 1         \* Cache.expiry, in clock ticks (the default is 86400 s)
MaxTime == Expiry + 2   \* the clock runs over 0..MaxTime
NumValues == 2      \* distinct picklable values a caller may store

\* ------------------------------------------------------------------ values
NoneV == [type |-> "None"]
Obj(i) == [type |-> "obj", id |-> i]
Unpicklable == [type |-> "function"]   \* e.g. a lambda: pickle.dump raises
Values == {Obj(i) : i \in 1..NumValues} \cup {Unpicklable}

Picklable(value) == value.type # "function"

\* ------------------------------------------------------------- characters
Digits == <<"0", "1", "2", "3", "4", "5", "6", "7", "8", "9">>
Alnum == {"a", "b", "r", "e", "v", "i", "w", "l", "t", "s"}
             \cup {Digits[i] : i \in 1..Len(Digits)}

isalnum(c) == c \in Alnum

\* The urls requested by the caller.
Urls == { <<"a", "/", "b">>, <<"a", "_", "b">>, <<"a", "b">> }

\* f"review:{url}"
review_key(url) == <<"r", "e", "v", "i", "e", "w", ":">> \o url

Keys == { review_key(u) : u \in Urls }

\* Mutant of get_cache_path: non-alphanumeric characters are dropped
\* instead of replaced.
get_cache_path_drops(key) == SelectSeq(key, isalnum)

\* Cache._get_cache_path: every non-alphanumeric character becomes "_".
\* (The directory prefix and the ".pkl" suffix are the same for every key.)
get_cache_path(key) == [i \in 1..Len(key) |-> IF isalnum(key[i]) THEN key[i] ELSE "_"]

Files == { get_cache_path(k) : k \in Keys }

\* ---------------------------------------------------------- file contents
Absent == [kind |-> "absent"]          \* no such file
Torn == [kind |-> "torn"]              \* truncated / incomplete pickle
Foreign == [kind |-> "foreign"]        \* unpickles, but has no 'timestamp'/'value'
Entry(value, t) == [kind |-> "entry", timestamp |-> t, value |-> value]

VARIABLES
    enabled,    \* Cache.enabled
    files,      \* the cache directory: file name -> contents
    now,        \* time.time()
    last,       \* the most recent call on the cache or client and its outcome
    hist,       \* per file: the last event that decided its logical content
    pc,         \* per process sharing the directory: where it is inside get/set
    loc,        \* per process: the locals of its call in progress, its result
    site,       \* the origin: what each listing page and review page serves
    sc,         \* the scraper's call in progress: its locals and its result
    trace,      \* the delays and HTTP requests the scraper has issued so far
    input,      \* the argument of a function under study (document, polarity)
    output      \* its result

\* The variables of the scraper and of the functions studied on their own.
extVars == <<site, sc, trace, input, output>>

vars == <<enabled, files, now, last, hist, pc, loc, site, sc, trace, input, output>>

\* --------------------------------------------------------------- the cache

\* Mutant of Cache_exists: an expired entry is reported as not existing.
Cache_exists_checks_expiry(en, fs, key) ==
    /\ en
    /\ fs[get_cache_path(key)] # Absent
    /\ fs[get_cache_path(key)].kind = "entry"
          => now - fs[get_cache_path(key)].timestamp <= Expiry

\* Cache.exists
Cache_exists(en, fs, key) ==
    IF ~en THEN FALSE
    ELSE fs[get_cache_path(key)] # Absent

\* Cache._remove_file
remove_file(fs, path) ==
    IF fs[path] # Absent THEN [fs EXCEPT ![path] = Absent] ELSE fs

\* Mutant of Cache_get: an expired entry is reported absent but its file is
\* left in place.
Cache_get_keeps_expired(en, fs, key, t) ==
    IF ~en \/ ~Cache_exists(en, fs, key)
    THEN [ret |-> NoneV, raised |-> "none", fs |-> fs]
    ELSE LET cache_path == get_cache_path(key)
             data == fs[cache_path]
         IN  IF data.kind # "entry"
             THEN [ret |-> NoneV, raised |-> "none", fs |-> remove_file(fs, cache_path)]
             ELSE IF t - data.timestamp > Expiry
             THEN [ret |-> NoneV, raised |-> "none", fs |-> fs]
             ELSE [ret |-> data.value, raised |-> "none", fs |-> fs]

\* Mutant of Cache_get: the load is not guarded, a file that does not
\* deserialize raises to the caller.
Cache_get_unguarded(en, fs, key, t) ==
    IF ~en \/ ~Cache_exists(en, fs, key)
    THEN [ret |-> NoneV, raised |-> "none", fs |-> fs]
    ELSE LET cache_path == get_cache_path(key)
             data == fs[cache_path]
         IN  IF data.kind # "entry"
             THEN [ret |-> NoneV, raised |-> "UnpicklingError", fs |-> fs]
             ELSE IF t - data.timestamp > Expiry
             THEN [ret |-> NoneV, raised |-> "none", fs |-> remove_file(fs, cache_path)]
             ELSE [ret |-> data.value, raised |-> "none", fs |-> fs]

\* Cache.get: the returned value and the directory afterwards.
Cache_get(en, fs, key, t) ==
    IF ~en \/ ~Cache_exists(en, fs, key)
    THEN [ret |-> NoneV, raised |-> "none", fs |-> fs]
    ELSE LET cache_path == get_cache_path(key)
             data == fs[cache_path]
         IN  IF data.kind # "entry"
             THEN \* pickle.load or data['timestamp'] raises: except Exception
                  [ret |-> NoneV, raised |-> "none", fs |-> remove_file(fs, cache_path)]
             ELSE IF t - data.timestamp > Expiry
             THEN [ret |-> NoneV, raised |-> "none", fs |-> remove_file(fs, cache_path)]
             ELSE [ret |-> data.value, raised |-> "none", fs |-> fs]

\* Mutant of Cache_set: the file is opened for exclusive creation, so an
\* existing file is not overwritten.
Cache_set_exclusive(en, fs, key, value, t) ==
    IF ~en
    THEN [ret |-> FALSE, raised |-> "none", fs |-> fs]
    ELSE LET cache_path == get_cache_path(key)
         IN  IF fs[cache_path] # Absent
             THEN [ret |-> FALSE, raised |-> "none", fs |-> fs]
             ELSE IF Picklable(value)
             THEN [ret |-> TRUE, raised |-> "none",
                   fs |-> [fs EXCEPT ![cache_path] = Entry(value, t)]]
             ELSE [ret |-> FALSE, raised |-> "none",
                   fs |-> [fs EXCEPT ![cache_path] = Torn]]

\* Cache.set: the returned flag and the directory afterwards.
Cache_set(en, fs, key, value, t) ==
    IF ~en
    THEN [ret |-> FALSE, raised |-> "none", fs |-> fs]
    ELSE LET cache_path == get_cache_path(key)
         IN  IF Picklable(value)
             THEN [ret |-> TRUE, raised |-> "none",
                   fs |-> [fs EXCEPT ![cache_path] = Entry(value, t)]]
             ELSE \* open(..., 'wb') has truncated the file, pickle.dump
                  \* raised: except Exception
                  [ret |-> FALSE, raised |-> "none",
                   fs |-> [fs EXCEPT ![cache_path] = Torn]]

\* Mutant of Cache_clear: the enabled flag is not consulted.
Cache_clear_unguarded(en, fs) ==
    [ret |-> TRUE, fs |-> [f \in DOMAIN fs |-> Absent]]

\* Mutant of Cache_clear: only complete entries are removed.
Cache_clear_entries_only(en, fs) ==
    IF ~en
    THEN [ret |-> FALSE, fs |-> fs]
    ELSE [ret |-> TRUE,
          fs |-> [f \in DOMAIN fs |-> IF fs[f].kind = "entry" THEN Absent ELSE fs[f]]]

\* Cache.clear: the returned flag and the directory afterwards.
Cache_clear(en, fs) ==
    IF ~en
    THEN [ret |-> FALSE, fs |-> fs]
    ELSE [ret |-> TRUE, fs |-> [f \in DOMAIN fs |-> Absent]]

\* -------------------------------------------------------------- the client
\* What the origin serves for a url: scraper.get_review(url) either raises
\* (transport failure, missing essential element) or returns a record.
Raises == [type |-> "raise"]
Contents == {"groundbreaking", ""}
Scraped(url) ==
    { [type |-> "dict", title |-> "OK Computer", artist |-> "Radiohead",
       score |-> 10, content |-> c, url |-> url] : c \in Contents }
Origin(url) == Scraped(url) \cup {Raises}

\* Review.from_dict (published_date, metadata and tracks are copied the same
\* way and are left out)
Review_from_dict(data) ==
    [type |-> "Review", title |-> data.title, artist |-> data.artist,
     url |-> data.url, content |-> data.content, score |-> data.score,
     sentiment |-> NoneV]

\* self.sentiment.analyze_text(review.content): the analyzer's result
analyze_text(text) == [type |-> "sentiment", of |-> text]

\* PitchforkClient._add_sentiment_analysis: assigns the analyzer's result,
\* then evaluates the unbound name `sentiment`, which raises NameError.
add_sentiment_analysis(review) ==
    [review |-> [review EXCEPT !.sentiment = analyze_text(review.content)],
     raised |-> "NameError"]

NoCalls == [exists |-> 0, get |-> 0, scrape |-> 0, analyze |-> 0, set |-> 0]

\* PitchforkClient.get_review: outcome, directory afterwards, and how often
\* each collaborator was called.
Client_get_review(en, fs, url, with_sentiment, origin, t) ==
    LET cache_key == review_key(url)
    IN  IF Cache_exists(en, fs, cache_key)
        THEN LET g == Cache_get(en, fs, cache_key, t)
             IN  [ret |-> g.ret, raised |-> g.raised, fs |-> g.fs, stored |-> NoneV,
                  calls |-> [NoCalls EXCEPT !.exists = 1, !.get = 1]]
        ELSE IF origin = Raises
        THEN [ret |-> NoneV, raised |-> "scraper", fs |-> fs, stored |-> NoneV,
              calls |-> [NoCalls EXCEPT !.exists = 1, !.scrape = 1]]
        ELSE LET review == Review_from_dict(origin)
                 a == IF with_sentiment THEN add_sentiment_analysis(review)
                      ELSE [review |-> review, raised |-> "none"]
                 n == IF with_sentiment THEN 1 ELSE 0
             IN  IF a.raised # "none"
                 THEN [ret |-> NoneV, raised |-> a.raised, fs |-> fs, stored |-> NoneV,
                       calls |-> [NoCalls EXCEPT !.exists = 1, !.scrape = 1, !.analyze = n]]
                 ELSE LET s == Cache_set(en, fs, cache_key, a.review, t)
                      IN  [ret |-> IF s.raised = "none" THEN a.review ELSE NoneV,
                           raised |-> s.raised, fs |-> s.fs,
                           stored |-> a.review,
                           calls |-> [NoCalls EXCEPT !.exists = 1, !.scrape = 1,
                                                     !.analyze = n, !.set = 1]]

\* ---------------------------------------------------------------- history
\* hist[f] records, from the state BEFORE each call, what the call was
\* entitled to do to file f; it is never read by the operations.
HistAfterGet(en, fs, key, t) ==
    LET path == get_cache_path(key)
    IN  IF ~en \/ fs[path] = Absent THEN hist
        ELSE IF fs[path].kind # "entry"
        THEN [hist EXCEPT ![path] = [ev |-> "corrupt_get"]]
        ELSE IF t - fs[path].timestamp > Expiry
        THEN [hist EXCEPT ![path] = [ev |-> "expired_get"]]
        ELSE hist

HistAfterSet(en, key, value, t) ==
    LET path == get_cache_path(key)
    IN  IF ~en THEN hist
        ELSE IF Picklable(value)
        THEN [hist EXCEPT ![path] = [ev |-> "set", key |-> key, value |-> value, at |-> t]]
        ELSE [hist EXCEPT ![path] = [ev |-> "set_failed"]]

HistAfterClear(en) ==
    IF ~en THEN hist ELSE [f \in Files |-> [ev |-> "clear"]]

\* -------------------------------------------------------------- processes
Procs == {"p1", "p2"}
NoCall == [op |-> "none"]

\* ---------------------------------------------------------------- actions
Init ==
    /\ enabled \in BOOLEAN
    /\ files \in [Files -> {Absent, Foreign}]
    /\ now = 0
    /\ last = [op |-> "init"]
    /\ hist = [f \in Files |-> [ev |-> "none"]]
    /\ pc = [p \in Procs |-> "idle"]
    /\ loc = [p \in Procs |-> NoCall]
    /\ site = NoneV
    /\ sc = NoCall
    /\ trace = << >>
    /\ input = NoneV
    /\ output = NoneV

\* Cache.__init__ on the same directory (a new run of the program).
Reopen(e) ==
    /\ enabled' = e
    /\ last' = [op |-> "init"]
    /\ UNCHANGED <<files, now, hist, pc, loc, extVars>>

Tick ==
    /\ now < MaxTime
    /\ now' = now + 1
    /\ UNCHANGED <<enabled, files, last, hist, pc, loc, extVars>>

Get(key) ==
    LET r == Cache_get(enabled, files, key, now)
    IN  /\ files' = r.fs
        /\ last' = [op |-> "get", key |-> key, ret |-> r.ret, raised |-> r.raised, at |-> now]
        /\ hist' = HistAfterGet(enabled, files, key, now)
        /\ UNCHANGED <<enabled, now, pc, loc, extVars>>

Set(key, value) ==
    LET r == Cache_set(enabled, files, key, value, now)
    IN  /\ files' = r.fs
        /\ last' = [op |-> "set", key |-> key, value |-> value, ret |-> r.ret,
                    raised |-> r.raised, at |-> now]
        /\ hist' = HistAfterSet(enabled, key, value, now)
        /\ UNCHANGED <<enabled, now, pc, loc, extVars>>

Exists(key) ==
    /\ last' = [op |-> "exists", key |-> key, ret |-> Cache_exists(enabled, files, key), at |-> now]
    /\ UNCHANGED <<enabled, files, now, hist, pc, loc, extVars>>

Clear ==
    LET r == Cache_clear(enabled, files)
    IN  /\ files' = r.fs
        /\ last' = [op |-> "clear", ret |-> r.ret, at |-> now]
        /\ hist' = HistAfterClear(enabled)
        /\ UNCHANGED <<enabled, now, pc, loc, extVars>>

GetReview(url, with_sentiment, origin) ==
    LET r == Client_get_review(enabled, files, url, with_sentiment, origin, now)
        key == review_key(url)
    IN  /\ files' = r.fs
        /\ last' = [op |-> "get_review", key |-> key, url |-> url,
                    with_sentiment |-> with_sentiment, origin |-> origin,
                    ret |-> r.ret, raised |-> r.raised, calls |-> r.calls, at |-> now]
        /\ hist' = IF r.calls.get = 1 THEN HistAfterGet(enabled, files, key, now)
                   ELSE IF r.calls.set = 1 THEN HistAfterSet(enabled, key, r.stored, now)
                   ELSE hist
        /\ UNCHANGED <<enabled, now, pc, loc, extVars>>

Next ==
    \/ \E e \in BOOLEAN : Reopen(e)
    \/ Tick
    \/ \E k \in Keys : Get(k)
    \/ \E k \in Keys, v \in Values : Set(k, v)
    \/ \E k \in Keys : Exists(k)
    \/ Clear

Spec == Init /\ [][Next]_vars

\* The client facade over its own cache (client.cache is public, so the
\* caller can also clear it).
ClientNext ==
    \/ \E e \in BOOLEAN : Reopen(e)
    \/ Tick
    \/ Clear
    \/ \E u \in Urls, ws \in BOOLEAN : \E o \in Origin(u) : GetReview(u, ws, o)

\* The client starts on a directory that holds nothing but what it stores.
InitClient ==
    /\ Init
    /\ files = [f \in Files |-> Absent]

SpecClient == InitClient /\ [][ClientNext]_vars

\* ------------------------------------------- processes sharing a directory
\* Cache.get and Cache.set one file-system call at a time, for two
\* processes that each hold a Cache on the same directory (POSIX file
\* semantics: an open file stays writable after its name is removed).

\* Cache._remove_file as seen by the other processes: a writer that holds
\* the removed file open keeps writing to a file that has no name any more.
Unlink(path) ==
    [q \in Procs |-> IF pc[q] = "set_dump" /\ get_cache_path(loc[q].key) = path
                     THEN [loc[q] EXCEPT !.linked = FALSE]
                     ELSE loc[q]]

\* Cache.set, lines 91-102: the enabled test, the timestamp, open(path, 'wb').
SetOpen(p, key, value) ==
    /\ pc[p] = "idle"
    /\ IF ~enabled
       THEN /\ loc' = [loc EXCEPT ![p] = [op |-> "set", key |-> key, ret |-> FALSE]]
            /\ UNCHANGED <<files, pc>>
       ELSE /\ files' = [files EXCEPT ![get_cache_path(key)] = Torn]
            /\ pc' = [pc EXCEPT ![p] = "set_dump"]
            /\ loc' = [loc EXCEPT ![p] = [op |-> "set", key |-> key, value |-> value,
                                          timestamp |-> now, linked |-> TRUE]]
    /\ UNCHANGED <<enabled, now, last, hist, extVars>>

\* Cache.set, lines 103-109: pickle.dump, close, return.
SetDump(p) ==
    /\ pc[p] = "set_dump"
    /\ LET l == loc[p]
           path == get_cache_path(l.key)
       IN  /\ files' = IF Picklable(l.value) /\ l.linked
                       THEN [files EXCEPT ![path] = Entry(l.value, l.timestamp)]
                       ELSE files
           /\ loc' = [loc EXCEPT ![p] = [op |-> "set", key |-> l.key, value |-> l.value,
                                         timestamp |-> l.timestamp,
                                         ret |-> Picklable(l.value)]]
    /\ pc' = [pc EXCEPT ![p] = "idle"]
    /\ UNCHANGED <<enabled, now, last, hist, extVars>>

\* Cache.get, lines 58-61: the enabled test and os.path.exists.
GetExists(p, key) ==
    /\ pc[p] = "idle"
    /\ IF Cache_exists(enabled, files, key)
       THEN /\ pc' = [pc EXCEPT ![p] = "get_load"]
            /\ loc' = [loc EXCEPT ![p] = [op |-> "get", key |-> key]]
       ELSE /\ loc' = [loc EXCEPT ![p] = [op |-> "get", key |-> key, seen |-> Absent,
                                          during_set |-> FALSE, ret |-> NoneV]]
            /\ UNCHANGED pc
    /\ UNCHANGED <<enabled, files, now, last, hist, extVars>>

\* Some other process is between open(path, 'wb') and the end of the dump
\* of a value that pickles.
SetInProgress(p, path) ==
    \E q \in Procs \ {p} :
        /\ pc[q] = "set_dump" /\ get_cache_path(loc[q].key) = path
        /\ loc[q].linked /\ Picklable(loc[q].value)

\* Cache.get, lines 63-74: open, pickle.load, the expiry test.
GetLoad(p) ==
    /\ pc[p] = "get_load"
    /\ LET key == loc[p].key
           path == get_cache_path(key)
           data == files[path]
           obs == [op |-> "get", key |-> key, seen |-> data,
                   during_set |-> SetInProgress(p, path)]
       IN  IF data.kind = "entry" /\ ~(now - data.timestamp > Expiry)
           THEN /\ loc' = [loc EXCEPT ![p] = [op |-> "get", key |-> key, seen |-> data,
                                              during_set |-> SetInProgress(p, path),
                                              ret |-> data.value]]
                /\ pc' = [pc EXCEPT ![p] = "idle"]
           ELSE /\ loc' = [loc EXCEPT ![p] = obs]
                /\ pc' = [pc EXCEPT ![p] = "get_remove"]
    /\ UNCHANGED <<enabled, files, now, last, hist, extVars>>

\* Cache.get, lines 70-71 and 77-78: _remove_file, return None.
GetRemove(p) ==
    /\ pc[p] = "get_remove"
    /\ LET path == get_cache_path(loc[p].key)
           unlinked == IF files[path] # Absent THEN Unlink(path) ELSE loc
       IN  /\ files' = remove_file(files, path)
           /\ loc' = [unlinked EXCEPT ![p] = [op |-> "get", key |-> loc[p].key,
                                              seen |-> loc[p].seen,
                                              during_set |-> loc[p].during_set,
                                              ret |-> NoneV]]
    /\ pc' = [pc EXCEPT ![p] = "idle"]
    /\ UNCHANGED <<enabled, now, last, hist, extVars>>

ProcNext ==
    \/ Tick
    \/ \E p \in Procs, k \in Keys, v \in Values : SetOpen(p, k, v)
    \/ \E p \in Procs : SetDump(p)
    \/ \E p \in Procs, k \in Keys : GetExists(p, k)
    \/ \E p \in Procs : GetLoad(p)
    \/ \E p \in Procs : GetRemove(p)

InitProcs ==
    /\ Init
    /\ files = [f \in Files |-> Absent]

SpecProcs == InitProcs /\ [][ProcNext]_vars

\* ------------------------------------------- the client's list operations
MaxCount == 2       \* the largest count asked of get_latest_reviews
MaxResults == 2     \* the most records a search returns

\* str(count)
RECURSIVE str_int(_)
str_int(n) == IF n < 10 THEN <<Digits[n + 1]>>
              ELSE str_int(n \div 10) \o <<Digits[(n % 10) + 1]>>

\* f"latest:{count}"
latest_key(count) == <<"l", "a", "t", "e", "s", "t", ":">> \o str_int(count)

LatestFiles == { get_cache_path(latest_key(c)) : c \in 0..MaxCount }

\* A Python list as a cached / returned value.
List(items) == [type |-> "list", items |-> items]

\* All sequences over S of length at most n.
SeqsUpTo(S, n) == UNION { [1..k -> S] : k \in 0..n }

\* The records scraper.search / scraper.get_latest_reviews hand to the client.
Records ==
    { [type |-> "dict", title |-> t, artist |-> "Radiohead", score |-> 10,
       content |-> "groundbreaking", url |-> <<"a", "b">>] : t \in {"OK Computer", "Kid A"} }

\* The caller's search queries.
Queries == { <<"a", "b">> }

\* Album.from_search_result
Album_from_search_result(data) ==
    [type |-> "Album", title |-> data.title, artist |-> data.artist,
     url |-> data.url, score |-> data.score]

\* PitchforkClient.search_albums: line 54 reads self.scarper, an attribute
\* the client does not have, so the call raises AttributeError before the
\* scraper or the cache is touched (line 57 would read the unbound cache_key).
Client_search_albums(en, fs, query, results, t) ==
    [ret |-> NoneV, raised |-> "AttributeError", fs |-> fs, calls |-> NoCalls]

\* [Review.from_dict(review_data) for data in review_data_list]: the element
\* expression reads the unbound name review_data, so the comprehension
\* raises NameError as soon as the list has an element.
reviews_comprehension(review_data_list) ==
    IF Len(review_data_list) = 0
    THEN [reviews |-> << >>, raised |-> "none"]
    ELSE [reviews |-> << >>, raised |-> "NameError"]

\* for review in reviews: self._add_sentiment_analysis(review)
sentiment_loop(reviews) ==
    IF Len(reviews) = 0
    THEN [reviews |-> reviews, raised |-> "none", analyzed |-> 0]
    ELSE [reviews |-> reviews, raised |-> add_sentiment_analysis(reviews[1]).raised,
          analyzed |-> 1]

\* PitchforkClient.get_latest_reviews
Client_get_latest_reviews(en, fs, count, with_sentiment, origin, t) ==
    LET cache_key == latest_key(count)
    IN  IF Cache_exists(en, fs, cache_key)
        THEN LET g == Cache_get(en, fs, cache_key, t)
             IN  [ret |-> g.ret, raised |-> g.raised, fs |-> g.fs,
                  calls |-> [NoCalls EXCEPT !.exists = 1, !.get = 1]]
        ELSE IF origin = Raises
        THEN [ret |-> NoneV, raised |-> "scraper", fs |-> fs,
              calls |-> [NoCalls EXCEPT !.exists = 1, !.scrape = 1]]
        ELSE LET c == reviews_comprehension(origin.items)
                 a == IF c.raised = "none" /\ with_sentiment
                      THEN sentiment_loop(c.reviews)
                      ELSE [reviews |-> c.reviews, raised |-> c.raised, analyzed |-> 0]
             IN  IF a.raised # "none"
                 THEN [ret |-> NoneV, raised |-> a.raised, fs |-> fs,
                       calls |-> [NoCalls EXCEPT !.exists = 1, !.scrape = 1,
                                                 !.analyze = a.analyzed]]
                 ELSE LET s == Cache_set(en, fs, cache_key, List(a.reviews), t)
                      IN  [ret |-> List(a.reviews), raised |-> "none", fs |-> s.fs,
                           calls |-> [NoCalls EXCEPT !.exists = 1, !.scrape = 1,
                                                     !.analyze = a.analyzed, !.set = 1]]

SearchAlbums(query, results) ==
    LET r == Client_search_albums(enabled, files, query, results, now)
    IN  /\ files' = r.fs
        /\ last' = [op |-> "search_albums", query |-> query, origin |-> results,
                    ret |-> r.ret, raised |-> r.raised, calls |-> r.calls, at |-> now]
        /\ UNCHANGED <<enabled, now, hist, pc, loc, extVars>>

GetLatestReviews(count, with_sentiment, origin) ==
    LET r == Client_get_latest_reviews(enabled, files, count, with_sentiment, origin, now)
    IN  /\ files' = r.fs
        /\ last' = [op |-> "get_latest_reviews", count |-> count,
                    with_sentiment |-> with_sentiment, origin |-> origin,
                    ret |-> r.ret, raised |-> r.raised, calls |-> r.calls, at |-> now]
        /\ UNCHANGED <<enabled, now, hist, pc, loc, extVars>>

\* The client's list operations over a directory of "latest:<count>" files.
InitListing ==
    /\ enabled \in BOOLEAN
    /\ files = [f \in LatestFiles |-> Absent]
    /\ now = 0
    /\ last = [op |-> "init"]
    /\ hist = [f \in LatestFiles |-> [ev |-> "none"]]
    /\ pc = [p \in Procs |-> "idle"]
    /\ loc = [p \in Procs |-> NoCall]
    /\ site = NoneV
    /\ sc = NoCall
    /\ trace = << >>
    /\ input = NoneV
    /\ output = NoneV

ListingNext ==
    \/ \E e \in BOOLEAN : Reopen(e)
    \/ Tick
    \/ \E q \in Queries, rs \in SeqsUpTo(Records, MaxResults) : SearchAlbums(q, List(rs))
    \/ \E c \in 0..MaxCount, ws \in BOOLEAN :
          \E o \in {List(rs) : rs \in SeqsUpTo(Records, c)} \cup {Raises} :
              GetLatestReviews(c, ws, o)

SpecListing == InitListing /\ [][ListingNext]_vars

\* ------------------------------------------------------------- the scraper
MaxGenres == 1      \* genre links on a review page
MaxTracks == 2      \* track items on a review page
MaxContainers == 2  \* result containers on a search page
RequestTimeout == 10

NoError == [type |-> "none"]
Error(type, msg) == [type |-> type, msg |-> msg]
Float(x) == [type |-> "float", v |-> x]

\* The endpoints, and the address of the idx-th review linked from a page.
SEARCH_URL == [endpoint |-> "search"]
REVIEWS_URL == [endpoint |-> "reviews"]
ReviewUrl(page, idx) == [endpoint |-> "review", page |-> page, idx |-> idx]

\* What the origin answers to one GET: a transport failure, a non-success
\* status, or a page.
TransportError == [status |-> "transport_error"]
HttpError == [status |-> "http_error"]
Page(doc) == [status |-> "ok", doc |-> doc]

\* Mutant of make_request: a failed GET is issued a second time.
make_request_retries(tr, url, params, response) ==
    LET once == << [ev |-> "delay"],
                   [ev |-> "get", url |-> url, params |-> params,
                    timeout |-> RequestTimeout] >>
    IN  IF response.status = "transport_error"
        THEN [trace |-> tr \o once \o once,
              raised |-> Error("ConnectionError", "transport")]
        ELSE IF response.status = "http_error"
        THEN [trace |-> tr \o once \o once, raised |-> Error("HTTPError", "status")]
        ELSE [trace |-> tr \o once, raised |-> NoError]

\* PitchforkScraper._make_request: one delay, one GET with the fixed
\* timeout, raise_for_status; a failure is logged and re-raised.
make_request(tr, url, params, response) ==
    LET issued == tr \o << [ev |-> "delay"],
                           [ev |-> "get", url |-> url, params |-> params,
                            timeout |-> RequestTimeout] >>
    IN  IF response.status = "transport_error"
        THEN [trace |-> issued, raised |-> Error("ConnectionError", "transport")]
        ELSE IF response.status = "http_error"
        THEN [trace |-> issued, raised |-> Error("HTTPError", "status")]
        ELSE [trace |-> issued, raised |-> NoError]

\* A review page, as far as the selectors of get_review can tell.
TrackItems == [title : BOOLEAN, content : BOOLEAN]
ReviewDocs ==
    [title : BOOLEAN, artist : BOOLEAN, content : BOOLEAN,
     score : {"absent", "number", "words"},
     published : {"absent", "iso", "unparsable", "no_datetime"},
     meta : {"absent", "label_year", "other"},
     genres : 0..MaxGenres,
     tracks : {[section |-> FALSE, items |-> << >>]}
              \cup [section : {TRUE}, items : SeqsUpTo(TrackItems, MaxTracks)]]

\* extract_date: None when no format matches, never raises.
extract_date(datetime_attr) ==
    IF datetime_attr = "iso" THEN [type |-> "datetime"] ELSE NoneV

\* Mutant of extract_metadata: the genres key is always set.
extract_metadata_genres_always(doc) ==
    LET labelled == IF doc.meta = "label_year"
                    THEN [k \in {"label", "year"} |-> [type |-> "str", of |-> k]]
                    ELSE << >>
    IN  labelled @@ [k \in {"genres"} |->
                        [type |-> "list", items |-> [i \in 1..doc.genres |-> i]]]

\* PitchforkScraper._extract_metadata
extract_metadata(doc) ==
    LET labelled == IF doc.meta = "label_year"
                    THEN [k \in {"label", "year"} |-> [type |-> "str", of |-> k]]
                    ELSE << >>
        genres == IF doc.genres > 0
                  THEN [k \in {"genres"} |->
                           [type |-> "list", items |-> [i \in 1..doc.genres |-> i]]]
                  ELSE << >>
    IN  labelled @@ genres

\* PitchforkScraper._extract_tracks
extract_tracks(doc) ==
    IF ~doc.tracks.section THEN << >>
    ELSE LET titled == SelectSeq([i \in 1..Len(doc.tracks.items) |->
                                    [item |-> i, title |-> doc.tracks.items[i].title,
                                     content |-> doc.tracks.items[i].content]],
                                 LAMBDA it : it.title)
         IN  [i \in 1..Len(titled) |->
                 [title |-> titled[i].item,
                  content |-> IF titled[i].content THEN "text" ELSE ""]]

\* Mutant of missing_essential: the artist element is not checked.
missing_essential_no_artist(doc) == ~(doc.title /\ doc.content)

\* `not all([title_elem, artist_elem, content_elem])`
missing_essential(doc) == ~(doc.title /\ doc.artist /\ doc.content)

\* PitchforkScraper.get_review, lines 106-137: the extraction.
extract_review(doc, url) ==
    IF missing_essential(doc)
    THEN [ret |-> NoneV,
          raised |-> Error("ValueError", "Missing essential review elements")]
    ELSE IF ~(doc.title /\ doc.artist)
    THEN \* title_elem.text / artist_elem.text on None
         [ret |-> NoneV, raised |-> Error("AttributeError", "NoneType.text")]
    ELSE IF doc.score = "words"
    THEN \* float(score_elem.text)
         [ret |-> NoneV,
          raised |-> Error("ValueError", "could not convert string to float")]
    ELSE IF ~doc.content
    THEN [ret |-> NoneV, raised |-> Error("AttributeError", "NoneType.text")]
    ELSE IF doc.published = "no_datetime"
    THEN \* published_elem["datetime"]
         [ret |-> NoneV, raised |-> Error("KeyError", "datetime")]
    ELSE [raised |-> NoError,
          ret |-> [type |-> "dict", title |-> "title", artist |-> "artist",
                   score |-> IF doc.score = "number" THEN Float(10) ELSE NoneV,
                   content |-> "text", url |-> url,
                   published_date |-> IF doc.published = "absent" THEN NoneV
                                      ELSE extract_date(doc.published),
                   metadata |-> extract_metadata(doc),
                   tracks |-> extract_tracks(doc)]]

\* PitchforkScraper.get_review: the request, then the extraction.
Scraper_get_review(tr, url, response) ==
    LET rq == make_request(tr, url, NoneV, response)
    IN  IF rq.raised # NoError
        THEN [trace |-> rq.trace, raised |-> rq.raised, ret |-> NoneV]
        ELSE LET x == extract_review(response.doc, url)
             IN  [trace |-> rq.trace, raised |-> x.raised, ret |-> x.ret]

\* A result container of a search page.
Containers ==
    [title : BOOLEAN, artist : BOOLEAN,
     link : {"absent", "href", "no_href"},
     score : {"absent", "number", "words"}]

\* PitchforkScraper.search, lines 68-89: one container; "skip" is `continue`.
search_item(c, i) ==
    IF ~(c.title /\ c.artist /\ c.link # "absent") THEN [skip |-> TRUE]
    ELSE IF c.link = "no_href" THEN [skip |-> TRUE]    \* KeyError, logged
    ELSE IF c.score = "words" THEN [skip |-> TRUE]     \* ValueError, logged
    ELSE [skip |-> FALSE, container |-> i,
          score |-> IF c.score = "number" THEN Float(10) ELSE NoneV]

\* PitchforkScraper.search
Scraper_search(tr, query, response) ==
    LET rq == make_request(tr, SEARCH_URL,
                           [query |-> query, filter |-> "albumreviews"], response)
    IN  IF rq.raised # NoError
        THEN [trace |-> rq.trace, raised |-> rq.raised, ret |-> NoneV]
        ELSE LET cs == response.doc.containers
                 items == [i \in 1..Len(cs) |-> search_item(cs[i], i)]
             IN  [trace |-> rq.trace, raised |-> NoError,
                  ret |-> SelectSeq(items, LAMBDA it : ~it.skip)]

\* Polarity in quarters of a hundredth (0.0025): TextBlob's polarity lies in
\* [-1, 1], and 0.6 is 240, 0.2 is 80.
Polarities == -400..400

\* Mutant of get_assessment: the top boundary is exclusive.
get_assessment_exclusive(polarity) ==
    IF polarity > 240 THEN "very positive"
    ELSE IF polarity >= 80 THEN "positive"
    ELSE IF polarity > -80 THEN "neutral"
    ELSE IF polarity > -240 THEN "negative"
    ELSE "very negative"

\* SentimentAnalyzer._get_assessment
get_assessment(polarity) ==
    IF polarity >= 240 THEN "very positive"
    ELSE IF polarity >= 80 THEN "positive"
    ELSE IF polarity > -80 THEN "neutral"
    ELSE IF polarity > -240 THEN "negative"
    ELSE "very negative"

\* One call of the scraper on one answer of the origin, or one call of the
\* analyzer's bucketing on one polarity.
Responses(docs) == {TransportError, HttpError} \cup {Page(d) : d \in docs}

InitExtract ==
    /\ enabled = FALSE
    /\ files = [f \in Files |-> Absent]
    /\ now = 0
    /\ last = [op |-> "init"]
    /\ hist = [f \in Files |-> [ev |-> "none"]]
    /\ pc = [p \in Procs |-> "idle"]
    /\ loc = [p \in Procs |-> NoCall]
    /\ site = NoneV
    /\ sc = NoCall
    /\ trace = << >>
    /\ input \in [kind : {"review"}, response : Responses(ReviewDocs)]
             \cup [kind : {"search"},
                   response : Responses([containers :
                                           SeqsUpTo(Containers, MaxContainers)])]
             \cup [kind : {"polarity"}, polarity : Polarities]
    /\ output = NoneV

ScrapeReview ==
    /\ input.kind = "review"
    /\ output = NoneV
    /\ LET r == Scraper_get_review(trace, ReviewUrl(1, 1), input.response)
       IN  /\ trace' = r.trace
           /\ output' = [raised |-> r.raised, ret |-> r.ret]
    /\ UNCHANGED <<enabled, files, now, last, hist, pc, loc, site, sc, input>>

ScrapeSearch ==
    /\ input.kind = "search"
    /\ output = NoneV
    /\ LET r == Scraper_search(trace, <<"a", "b">>, input.response)
       IN  /\ trace' = r.trace
           /\ output' = [raised |-> r.raised, ret |-> r.ret]
    /\ UNCHANGED <<enabled, files, now, last, hist, pc, loc, site, sc, input>>

Assess ==
    /\ input.kind = "polarity"
    /\ output = NoneV
    /\ output' = [raised |-> NoError, ret |-> get_assessment(input.polarity)]
    /\ UNCHANGED <<enabled, files, now, last, hist, pc, loc, site, sc, trace, input>>

ExtractNext ==
    \/ ScrapeReview
    \/ ScrapeSearch
    \/ Assess

SpecExtract == InitExtract /\ [][ExtractNext]_vars

\* ------------------------------------------- the scraper's pagination loop
MaxPages == 2   \* listing pages the origin describes one by one
MaxUrls == 2    \* review links on one listing page

\* What the origin holds: listing pages 1..Len(pages), each a list of
\* review links given by whether get_review will succeed on the review, and
\* what every later listing page answers: no links, one link to a review
\* on which get_review fails, or a failure of the listing request itself.
Outcomes == {"ok", "fail"}
Tails == {"empty", "failing_reviews", "listing_error"}
Sites == [pages : SeqsUpTo(SeqsUpTo(Outcomes, MaxUrls), MaxPages), tail : Tails]

ListingResponse(st, page) ==
    IF page <= Len(st.pages)
    THEN Page([links |-> [i \in 1..Len(st.pages[page]) |-> ReviewUrl(page, i)]])
    ELSE IF st.tail = "empty" THEN Page([links |-> << >>])
    ELSE IF st.tail = "failing_reviews" THEN Page([links |-> << ReviewUrl(page, 1) >>])
    ELSE HttpError

ReviewDoc(complete) ==
    [title |-> TRUE, artist |-> TRUE, content |-> complete, score |-> "number",
     published |-> "iso", meta |-> "label_year", genres |-> 1,
     tracks |-> [section |-> FALSE, items |-> << >>]]

\* What the origin may answer to the request of a review: the page of a
\* review that extracts, or a failed request or a page without body text.
ReviewResponses(st, url) ==
    LET outcome == IF url.page <= Len(st.pages) THEN st.pages[url.page][url.idx]
                   ELSE "fail"
    IN  IF outcome = "ok" THEN {Page(ReviewDoc(TRUE))}
        ELSE {TransportError, HttpError, Page(ReviewDoc(FALSE))}

\* PitchforkScraper._get_review_urls_from_page
get_review_urls_from_page(tr, st, page) ==
    LET rq == make_request(tr, REVIEWS_URL, [page |-> page], ListingResponse(st, page))
    IN  IF rq.raised # NoError
        THEN [trace |-> rq.trace, raised |-> rq.raised, ret |-> << >>]
        ELSE [trace |-> rq.trace, raised |-> NoError,
              ret |-> ListingResponse(st, page).doc.links]

\* `while len(reviews) < count`
loop_continues(reviews, count) == Len(reviews) < count

\* Mutant of no_urls: an empty listing page does not end the loop.
no_urls_ignored(urls) == FALSE

\* `if not urls: break`
no_urls(urls) == urls = << >>

\* Mutant of for_break: the inner loop does not stop at count.
for_break_never(reviews, count) == FALSE

\* `if len(reviews) >= count: break`
for_break(reviews, count) == Len(reviews) >= count

\* Mutant of pacing: the pause is taken after failed reviews too.
pacing_always(raised) == << [ev |-> "pace"] >>

\* `time.sleep(random.uniform(1.0, 2.0))` after reviews.append, inside the
\* try: skipped when get_review raised.
pacing(raised) == IF raised = NoError THEN << [ev |-> "pace"] >> ELSE << >>

\* `page += 1`. Every page past the described ones answers alike, so the
\* counter is kept at the first of them.
NextPageNo(st, page) == IF page > Len(st.pages) THEN page ELSE page + 1

Min(a, b) == IF a <= b THEN a ELSE b

\* State after `reviews = []; page = 1`, at the while test.
ScraperCall(count) ==
    [pc |-> "while", count |-> count, page |-> 1, urls |-> << >>, i |-> 1,
     reviews |-> << >>, ret |-> NoneV, raised |-> NoError]

InitScraper ==
    /\ enabled = FALSE
    /\ files = [f \in Files |-> Absent]
    /\ now = 0
    /\ last = [op |-> "init"]
    /\ hist = [f \in Files |-> [ev |-> "none"]]
    /\ pc = [p \in Procs |-> "idle"]
    /\ loc = [p \in Procs |-> NoCall]
    /\ site \in Sites
    /\ sc \in {ScraperCall(count) : count \in 0..MaxCount}
    /\ trace = << >>
    /\ input = NoneV
    /\ output = NoneV

\* The while test.
WhileTest ==
    /\ sc.pc = "while"
    /\ sc' = [sc EXCEPT !.pc = IF loop_continues(sc.reviews, sc.count)
                                THEN "listing" ELSE "return"]
    /\ trace' = << >>
    /\ UNCHANGED <<enabled, files, now, last, hist, pc, loc, site, input, output>>

\* The listing request of the current page and the test for no links.
Listing ==
    /\ sc.pc = "listing"
    /\ LET r == get_review_urls_from_page(<< >>, site, sc.page)
       IN  /\ trace' = r.trace
           /\ sc' = IF r.raised # NoError
                    THEN [sc EXCEPT !.pc = "raised", !.raised = r.raised]
                    ELSE IF no_urls(r.ret)
                    THEN [sc EXCEPT !.pc = "return", !.urls = r.ret]
                    ELSE [sc EXCEPT !.pc = "for", !.urls = r.ret, !.i = 1]
    /\ UNCHANGED <<enabled, files, now, last, hist, pc, loc, site, input, output>>

\* One iteration of the for loop: fetch the review; append and pause on
\* success, log and go on otherwise.
Fetch ==
    /\ sc.pc = "for"
    /\ sc.i <= Len(sc.urls)
    /\ ~for_break(sc.reviews, sc.count)
    /\ \E response \in ReviewResponses(site, sc.urls[sc.i]) :
          LET r == Scraper_get_review(<< >>, sc.urls[sc.i], response)
          IN  /\ trace' = r.trace \o pacing(r.raised)
              /\ sc' = IF r.raised = NoError
                       THEN [sc EXCEPT !.reviews = Append(@, r.ret), !.i = @ + 1]
                       ELSE [sc EXCEPT !.i = @ + 1]
    /\ UNCHANGED <<enabled, files, now, last, hist, pc, loc, site, input, output>>

\* The for loop ends (links used up, or count reached) and the page advances.
NextPage ==
    /\ sc.pc = "for"
    /\ sc.i > Len(sc.urls) \/ for_break(sc.reviews, sc.count)
    /\ sc' = [sc EXCEPT !.pc = "while", !.page = NextPageNo(site, @)]
    /\ trace' = << >>
    /\ UNCHANGED <<enabled, files, now, last, hist, pc, loc, site, input, output>>

\* `return reviews[:count]`
Return ==
    /\ sc.pc = "return"
    /\ sc' = [sc EXCEPT !.pc = "returned",
                        !.ret = List(SubSeq(sc.reviews, 1, Min(sc.count, Len(sc.reviews))))]
    /\ trace' = << >>
    /\ UNCHANGED <<enabled, files, now, last, hist, pc, loc, site, input, output>>

ScraperNext ==
    \/ WhileTest
    \/ Listing
    \/ Fetch
    \/ NextPage
    \/ Return

SpecScraper == InitScraper /\ [][ScraperNext]_vars

\* The interpreter keeps executing the loop.
SpecScraperFair == SpecScraper /\ WF_vars(ScraperNext)

\* ------------------------------------------------ the sentiment analyzer
MaxWords == 3       \* words of a freely chosen text
MaxSentences == 1   \* sentences the estimator splits a text into
TopTerms == 10
TopSentences == 5

POSITIVE_TERMS ==
    << "masterpiece", "brilliant", "exceptional", "outstanding", "innovative",
       "groundbreaking", "excellent", "superb", "stunning", "impressive",
       "perfect", "visionary", "captivating", "spectacular", "remarkable" >>

NEGATIVE_TERMS ==
    << "disappointing", "mediocre", "uninspired", "bland", "derivative",
       "forgettable", "underwhelming", "tedious", "redundant", "unimaginative",
       "generic", "lackluster", "monotonous", "dull", "pretentious" >>

\* A text is a sequence of words. A word is given by the letters it is
\* built on (stem), whether more word characters are attached to them
\* ("dullness" is stem "dull" with affix), and whether it is capitalised.
Word(stem, affix, caps) == [stem |-> stem, affix |-> affix, caps |-> caps]
Str(words) == [type |-> "str", words |-> words]
Vocabulary ==
    { Word("dull", FALSE, FALSE), Word("dull", TRUE, FALSE), Word("dull", FALSE, TRUE),
      Word("brilliant", FALSE, FALSE), Word("album", FALSE, FALSE) }
LexiconText ==
    [i \in 1..Len(POSITIVE_TERMS) |-> Word(POSITIVE_TERMS[i], FALSE, FALSE)]
        \o [i \in 1..Len(NEGATIVE_TERMS) |-> Word(NEGATIVE_TERMS[i], FALSE, FALSE)]
\* The freely chosen short texts, and long ones that use the whole lexicon
\* and two of its terms once more.
Texts ==
    {Str(w) : w \in SeqsUpTo(Vocabulary, MaxWords)}
        \cup {Str(LexiconText \o << LexiconText[i], LexiconText[j] >>) :
                 i, j \in 1..Len(LexiconText)}

\* str.lower
lower(words) == [i \in 1..Len(words) |-> [words[i] EXCEPT !.caps = FALSE]]

\* `term in text`: the letters of the term occur somewhere in the text.
contains(words, term) == \E i \in 1..Len(words) : words[i].stem = term /\ ~words[i].caps

\* len(re.findall(r'\b' + term + r'\b', text))
count_whole(words, term) ==
    Cardinality({i \in 1..Len(words) :
                    words[i].stem = term /\ ~words[i].caps /\ ~words[i].affix})

\* One of the two loops over a term list, lines 120-135.
scan_terms(words, terms, label) ==
    LET found == SelectSeq(terms, LAMBDA t : contains(words, t))
    IN  [i \in 1..Len(found) |->
            [term |-> found[i], sentiment |-> label,
             count |-> count_whole(words, found[i])]]

\* list.sort(key=..., reverse=True): stable, larger keys first. The items
\* are records with fields k (the key) and v.
RECURSIVE sort_reverse(_)
sort_reverse(items) ==
    IF items = << >> THEN << >>
    ELSE LET rest == sort_reverse(SubSeq(items, 1, Len(items) - 1))
             e == items[Len(items)]
             before == SelectSeq(rest, LAMBDA x : x.k >= e.k)
             after == SelectSeq(rest, LAMBDA x : x.k < e.k)
         IN  before \o << e >> \o after

\* Mutant of sort_by_count: ascending sort, then reversed (ties swap).
RECURSIVE reverse_seq(_)
reverse_seq(q) == IF q = << >> THEN << >> ELSE reverse_seq(Tail(q)) \o << Head(q) >>
sort_by_count_reversed(key_terms) ==
    LET keyed == [i \in 1..Len(key_terms) |-> [k |-> 0 - key_terms[i].count, v |-> key_terms[i]]]
        sorted == reverse_seq(sort_reverse(keyed))
    IN  [i \in 1..Len(sorted) |-> sorted[i].v]

\* key_terms.sort(key=lambda x: x["count"], reverse=True)
sort_by_count(key_terms) ==
    LET keyed == [i \in 1..Len(key_terms) |-> [k |-> key_terms[i].count, v |-> key_terms[i]]]
        sorted == sort_reverse(keyed)
    IN  [i \in 1..Len(sorted) |-> sorted[i].v]

\* The list before `return key_terms[:10]`.
found_key_terms(text) ==
    LET words == lower(text.words)
    IN  sort_by_count(scan_terms(words, POSITIVE_TERMS, "positive")
                         \o scan_terms(words, NEGATIVE_TERMS, "negative"))

\* SentimentAnalyzer._extract_key_terms
extract_key_terms(text) ==
    SubSeq(found_key_terms(text), 1, Min(TopTerms, Len(found_key_terms(text))))

\* round(x, 2) of a value in quarters of a hundredth, in hundredths. A value
\* half way between two hundredths goes where its binary representation
\* falls: up when tie_up, down otherwise.
round2(x, tie_up) ==
    IF x % 4 = 3 \/ (x % 4 = 2 /\ tie_up) THEN (x \div 4) + 1 ELSE x \div 4

Abs(x) == IF x < 0 THEN 0 - x ELSE x

\* What TextBlob computes for a text: polarity and subjectivity of the whole
\* and of each sentence, and each sentence's number of words.
Sentences == [words : {2, 3}, polarity : {-239, 100, 239, 241}, subjectivity : {200}]
AnalyzePolarities == {t + d : t \in {-240, -80, 0, 80, 240}, d \in -3..3}
Estimates ==
    [polarity : AnalyzePolarities, subjectivity : {0, 201}, tie_up : BOOLEAN,
     sentences : SeqsUpTo(Sentences, MaxSentences)]

\* SentimentAnalyzer._analyze_sentences
analyze_sentences(sentences, tie_up) ==
    LET numbered == [i \in 1..Len(sentences) |-> [text |-> i, s |-> sentences[i]]]
        strong == SelectSeq(numbered,
                            LAMBDA n : n.s.words >= 3 /\ Abs(n.s.polarity) > 120)
        analysis == [i \in 1..Len(strong) |->
                        [text |-> strong[i].text,
                         polarity |-> round2(strong[i].s.polarity, tie_up),
                         subjectivity |-> round2(strong[i].s.subjectivity, tie_up),
                         assessment |-> get_assessment(strong[i].s.polarity)]]
        sorted == sort_reverse([i \in 1..Len(analysis) |->
                                   [k |-> Abs(analysis[i].polarity), v |-> analysis[i]]])
    IN  [i \in 1..Min(TopSentences, Len(sorted)) |-> sorted[i].v]

\* Mutant of analyze_text: no early return for a falsy text.
analyze_text_unguarded(text, est) ==
    IF text.type = "None"
    THEN [raised |-> Error("TypeError", "text"), ret |-> NoneV, estimated |-> 0]
    ELSE [raised |-> NoError, estimated |-> 1,
          ret |-> [polarity |-> IF text.words = << >> THEN 0
                                ELSE round2(est.polarity, est.tie_up),
                   subjectivity |-> IF text.words = << >> THEN 0
                                    ELSE round2(est.subjectivity, est.tie_up),
                   assessment |-> IF text.words = << >> THEN "neutral"
                                  ELSE get_assessment(est.polarity),
                   key_terms |-> extract_key_terms(text),
                   sentences |-> IF text.words = << >> THEN << >>
                                 ELSE analyze_sentences(est.sentences, est.tie_up)]]

\* SentimentAnalyzer.analyze_text. `estimated` counts the TextBlob objects
\* built for the text, whose sentiment property runs the polarity estimator.
Analyzer_analyze_text(text, est) ==
    IF text.type = "None" \/ text.words = << >>
    THEN [raised |-> NoError, estimated |-> 0,
          ret |-> [polarity |-> 0, subjectivity |-> 0, assessment |-> "neutral",
                   key_terms |-> << >>, sentences |-> << >>]]
    ELSE [raised |-> NoError, estimated |-> 1,
          ret |-> [polarity |-> round2(est.polarity, est.tie_up),
                   subjectivity |-> round2(est.subjectivity, est.tie_up),
                   assessment |-> get_assessment(est.polarity),
                   key_terms |-> extract_key_terms(text),
                   sentences |-> analyze_sentences(est.sentences, est.tie_up)]]

AnalyzedTexts ==
    { NoneV, Str(<< >>), Str(<< Word("brilliant", FALSE, FALSE) >>),
      Str(<< Word("dull", TRUE, FALSE), Word("album", FALSE, FALSE) >>) }

InitSentiment ==
    /\ enabled = FALSE
    /\ files = [f \in Files |-> Absent]
    /\ now = 0
    /\ last = [op |-> "init"]
    /\ hist = [f \in Files |-> [ev |-> "none"]]
    /\ pc = [p \in Procs |-> "idle"]
    /\ loc = [p \in Procs |-> NoCall]
    /\ site = NoneV
    /\ sc = NoCall
    /\ trace = << >>
    /\ input \in [kind : {"terms"}, text : Texts]
             \cup [kind : {"analyze"}, text : AnalyzedTexts, est : Estimates]
    /\ output = NoneV

ExtractKeyTerms ==
    /\ input.kind = "terms"
    /\ output = NoneV
    /\ output' = [raised |-> NoError, ret |-> extract_key_terms(input.text),
                  found |-> found_key_terms(input.text)]
    /\ UNCHANGED <<enabled, files, now, last, hist, pc, loc, site, sc, trace, input>>

AnalyzeText ==
    /\ input.kind = "analyze"
    /\ output = NoneV
    /\ output' = Analyzer_analyze_text(input.text, input.est)
    /\ UNCHANGED <<enabled, files, now, last, hist, pc, loc, site, sc, trace, input>>

SentimentNext ==
    \/ ExtractKeyTerms
    \/ AnalyzeText

SpecSentiment == InitSentiment /\ [][SentimentNext]_vars

\* ------------------------------------------------------ URL normalisation
MaxUrlParts == 3    \* parts a link's href is put together from

\* An href is put together from these parts; the function works on its
\* characters.
UrlParts == {"http", "ftp", "://", "/", "a"}
CharsOf(part) ==
    IF part = "http" THEN << "h", "t", "t", "p" >>
    ELSE IF part = "ftp" THEN << "f", "t", "p" >>
    ELSE IF part = "://" THEN << ":", "/", "/" >>
    ELSE << part >>
RECURSIVE Join(_)
Join(parts) == IF parts = << >> THEN << >> ELSE CharsOf(Head(parts)) \o Join(Tail(parts))
Hrefs == {Join(parts) : parts \in SeqsUpTo(UrlParts, MaxUrlParts)}
\* BASE_URL, and the same with trailing slashes.
BaseUrls == {Join(<< "http", "://", "a" >>), Join(<< "http", "://", "a", "/" >>)}

\* str.startswith
startswith(str, prefix) ==
    Len(str) >= Len(prefix) /\ SubSeq(str, 1, Len(prefix)) = prefix

\* str.rstrip('/')
RECURSIVE rstrip_slash(_)
rstrip_slash(str) ==
    IF str # << >> /\ str[Len(str)] = "/"
    THEN rstrip_slash(SubSeq(str, 1, Len(str) - 1))
    ELSE str

\* normalize_url
normalize_url(url, base_url) ==
    IF startswith(url, << "h", "t", "t", "p" >>) THEN url
    ELSE IF startswith(url, << "/" >>) THEN rstrip_slash(base_url) \o url
    ELSE rstrip_slash(base_url) \o << "/" >> \o url

InitUrl ==
    /\ enabled = FALSE
    /\ files = [f \in Files |-> Absent]
    /\ now = 0
    /\ last = [op |-> "init"]
    /\ hist = [f \in Files |-> [ev |-> "none"]]
    /\ pc = [p \in Procs |-> "idle"]
    /\ loc = [p \in Procs |-> NoCall]
    /\ site = NoneV
    /\ sc = NoCall
    /\ trace = << >>
    /\ input \in [kind : {"url"}, url : Hrefs, base_url : BaseUrls]
    /\ output = NoneV

NormalizeUrl ==
    /\ input.kind = "url"
    /\ output = NoneV
    /\ output' = [raised |-> NoError, ret |-> normalize_url(input.url, input.base_url)]
    /\ UNCHANGED <<enabled, files, now, last, hist, pc, loc, site, sc, trace, input>>

UrlNext == NormalizeUrl

SpecUrl == InitUrl /\ [][UrlNext]_vars

\* ================================================================== claims
PathOf(key) == get_cache_path(key)
LastOn(f) == last.op \in {"get", "set", "exists"} /\ PathOf(last.key) = f

\* What a caller sees on file f once its entry is gone: get gives None,
\* exists gives False.
Gone(f) ==
    /\ files[f] = Absent
    /\ (LastOn(f) /\ last.op = "get") => (last.ret = NoneV /\ last.raised = "none")
    /\ (LastOn(f) /\ last.op = "exists") => last.ret = FALSE

\* C1: on an enabled cache set(k, v) of a serializable v returns true,
\* whatever the file held before, and a get(k) issued before `expiry` has
\* elapsed since that set, with no set or clear in between, returns v.
C1_RoundTrip ==
    /\ (last.op = "set" /\ enabled /\ Picklable(last.value))
          => /\ last.ret = TRUE
             /\ last.raised = "none"
             /\ files[PathOf(last.key)] = Entry(last.value, last.at)
    /\ (last.op = "get" /\ enabled)
          => LET h == hist[PathOf(last.key)]
             IN  (h.ev = "set" /\ last.at - h.at < Expiry) => last.ret = h.value

\* C1 witness: after the clock has advanced, a get returned the value that
\* the last set on its file stored.
C1_Witness ==
    /\ last.op = "get" /\ enabled
    /\ hist[PathOf(last.key)].ev = "set"
    /\ last.ret = hist[PathOf(last.key)].value
    /\ last.ret = Obj(2)
    /\ last.at > 0

\* C2: a get(k) called when now - stored_at > expiry returns None and
\* removes the file, so that until the next set on k exists(k) is false.
C2_Expiry ==
    \A f \in Files : hist[f].ev = "expired_get" => Gone(f)

\* C2 witness: exists(k) answered false after an expired entry was read.
C2_Witness ==
    /\ enabled /\ last.op = "exists" /\ last.ret = FALSE
    /\ hist[PathOf(last.key)].ev = "expired_get"

\* C3: every get_review(url) that returns follows the cache-aside read path:
\* a live entry under "review:<url>" is returned; in every other cache state
\* (no file, an expired or unreadable file) the origin's record is fetched,
\* stored and returned; None is never returned.
C3_CacheAside ==
    [][\A u \in Urls, ws \in BOOLEAN : \A o \in Scraped(u) :
        (GetReview(u, ws, o) /\ last'.raised = "none") =>
            LET path == get_cache_path(review_key(u))
                f == files[path]
                live == enabled /\ f.kind = "entry" /\ now - f.timestamp <= Expiry
            IN  IF live
                THEN last'.ret = f.value
                ELSE /\ last'.ret # NoneV
                     /\ last'.ret.url = u
                     /\ last'.ret.content = o.content
                     /\ enabled => files'[path] = Entry(last'.ret, now)
      ]_vars

\* C4: while one process executes set(k, v), the file of k never holds
\* anything a reader in another process could take for an incomplete
\* entry: no get of another process loads a torn file during the set.
C4_NoTornRead ==
    \A p \in Procs :
        (loc[p].op = "get" /\ pc[p] # "get_load" /\ loc[p].during_set)
            => loc[p].seen # Torn

\* C5: get never raises; a file that does not deserialize to an entry makes
\* get return None and is deleted, so exists is false afterwards; a set that
\* cannot write reports false and does not raise.
C5_NoRaise ==
    /\ \A f \in Files : hist[f].ev = "corrupt_get" => Gone(f)
    /\ last.op = "get" => last.raised = "none"
    /\ last.op = "set" => last.raised = "none"
    /\ (last.op = "set" /\ ~Picklable(last.value)) => last.ret = FALSE

\* C5 witness: exists(k) answered false after get met an unreadable file.
C5_Witness ==
    /\ enabled /\ last.op = "exists" /\ last.ret = FALSE
    /\ hist[PathOf(last.key)].ev = "corrupt_get"

\* C10: a get_review(url) with with_sentiment = true that misses the cache
\* checks the cache once, scrapes once, analyses once, stores once and
\* returns a Review with the scraped title, artist and score and the
\* analyzer's result as sentiment.
C10_MissPath ==
    [][\A u \in Urls : \A o \in Scraped(u) :
        (GetReview(u, TRUE, o) /\ ~Cache_exists(enabled, files, review_key(u))) =>
            /\ last'.calls = [exists |-> 1, get |-> 0, scrape |-> 1, analyze |-> 1, set |-> 1]
            /\ last'.raised = "none"
            /\ last'.ret.title = o.title
            /\ last'.ret.artist = o.artist
            /\ last'.ret.score = o.score
            /\ last'.ret.sentiment = analyze_text(o.content)
      ]_vars

\* C6: a disabled cache answers set -> false, get -> None, exists -> false,
\* clear -> false, and none of its operations changes the directory.
DisabledAnswers ==
    /\ last.op = "set" => last.ret = FALSE
    /\ last.op = "get" => last.ret = NoneV
    /\ last.op = "exists" => last.ret = FALSE
    /\ last.op = "clear" => last.ret = FALSE
C6_DisabledFrame ==
    /\ [](~enabled => DisabledAnswers)
    /\ [][~enabled => files' = files]_vars

\* C6 witness: clear was called on a disabled cache whose directory holds a
\* complete entry.
C6_Witness ==
    /\ ~enabled /\ last.op = "clear"
    /\ \E f \in Files : files[f].kind = "entry"

\* C7: exists(k) on an enabled cache is true exactly when the file is
\* present, expired or not; it leaves the directory alone, and a present
\* file disappears only through get or clear.
C7_ExistsPure ==
    /\ []((last.op = "exists" /\ enabled)
            => last.ret = (files[PathOf(last.key)] # Absent))
    /\ [][\A k \in Keys : Exists(k) => files' = files]_vars
    /\ [][\A f \in Files : (files[f] # Absent /\ files'[f] = Absent)
              => last'.op \in {"get", "clear"}]_vars

\* C7 witness: exists(k) answered true for an entry older than expiry.
C7_Witness ==
    /\ enabled /\ last.op = "exists" /\ last.ret = TRUE
    /\ files[PathOf(last.key)].kind = "entry"
    /\ last.at - files[PathOf(last.key)].timestamp > Expiry

\* C8: after clear() returned true no entry remains: every key is absent
\* for exists and get until the next set on it.
C8_Clear ==
    /\ (last.op = "clear" /\ last.ret = TRUE) => \A f \in Files : files[f] = Absent
    /\ \A f \in Files : hist[f].ev = "clear" => Gone(f)

\* C8 witness: a get after clear returned None for a key that had been set.
C8_Witness ==
    /\ enabled /\ last.op = "get" /\ last.ret = NoneV
    /\ hist[PathOf(last.key)].ev = "clear"
    /\ \E f \in Files : hist[f].ev = "set"

\* C9: two keys share an entry exactly when they agree after every
\* non-alphanumeric character is replaced by the filler: a set(k1, v) makes
\* get(k2) return v when they agree, and leaves get(k2) and exists(k2) as
\* they were when they do not.
SameAfterFiller(k1, k2) ==
    /\ Len(k1) = Len(k2)
    /\ \A i \in 1..Len(k1) : k1[i] = k2[i] \/ (k1[i] \notin Alnum /\ k2[i] \notin Alnum)
C9_KeyCollision ==
    [][\A k1 \in Keys, v \in Values : Set(k1, v) =>
        \A k2 \in Keys :
            IF SameAfterFiller(k1, k2)
            THEN (enabled /\ Picklable(v)) => Cache_get(enabled, files', k2, now).ret = v
            ELSE /\ Cache_get(enabled, files', k2, now).ret
                       = Cache_get(enabled, files, k2, now).ret
                 /\ Cache_exists(enabled, files', k2) = Cache_exists(enabled, files, k2)
      ]_vars

\* C9 witness: get("review:a_b") returned what set("review:a/b", v) stored.
C9_Witness ==
    /\ enabled /\ last.op = "get"
    /\ last.key = review_key(<<"a", "_", "b">>)
    /\ hist[PathOf(last.key)].ev = "set"
    /\ hist[PathOf(last.key)].key = review_key(<<"a", "/", "b">>)
    /\ last.ret = hist[PathOf(last.key)].value

\* C11: search_albums is cache-aside; with nothing cached it checks the
\* cache once, calls the scraper's search once, returns one Album per record
\* in the same order and stores the list once; it never raises when the
\* scraper returns.
C11_SearchCacheAside ==
    [][\A q \in Queries, rs \in SeqsUpTo(Records, MaxResults) :
        (SearchAlbums(q, List(rs)) /\ \A f \in DOMAIN files : files[f] = Absent) =>
            /\ last'.raised = "none"
            /\ last'.calls.exists = 1
            /\ last'.calls.scrape = 1
            /\ last'.calls.set = 1
            /\ last'.ret = List([i \in 1..Len(rs) |-> Album_from_search_result(rs[i])])
      ]_vars

\* C12: a get_latest_reviews(count) that misses the cache calls the scraper
\* once, returns one Review per record in the same order, each built from
\* its own record, analyses each once when with_sentiment is true, and
\* stores the list once.
C12_LatestMiss ==
    [][\A c \in 0..MaxCount, ws \in BOOLEAN, rs \in SeqsUpTo(Records, MaxCount) :
        (GetLatestReviews(c, ws, List(rs)) /\ ~Cache_exists(enabled, files, latest_key(c))) =>
            /\ last'.raised = "none"
            /\ last'.calls.scrape = 1
            /\ last'.calls.analyze = (IF ws THEN Len(rs) ELSE 0)
            /\ last'.calls.set = 1
            /\ Len(last'.ret.items) = Len(rs)
            /\ \A i \in 1..Len(rs) :
                  /\ last'.ret.items[i].title = rs[i].title
                  /\ last'.ret.items[i].content = rs[i].content
                  /\ last'.ret.items[i].sentiment
                        = (IF ws THEN analyze_text(rs[i].content) ELSE NoneV)
      ]_vars


\* ---- claims about the scraper's extraction (SpecExtract)
ReviewDone == input.kind = "review" /\ output # NoneV
ReviewPage == ReviewDone /\ input.response.status = "ok"
Essential == {"title", "artist", "content"}
Missing(doc) == {f \in Essential : ~doc[f]}
OneRequest ==
    /\ Len(trace) = 2
    /\ trace[1].ev = "delay"
    /\ trace[2].ev = "get"
    /\ trace[2].timeout = RequestTimeout
EssentialError == Error("ValueError", "Missing essential review elements")
BareDoc ==
    [title |-> TRUE, artist |-> TRUE, content |-> TRUE, score |-> "absent",
     published |-> "absent", meta |-> "absent", genres |-> 0,
     tracks |-> [section |-> FALSE, items |-> << >>]]
OnlyMissing(f) == [BareDoc EXCEPT ![f] = FALSE]

\* C13 as stated: a review page without its title, artist or body text
\* fails with the essential-field error, and that error names the absent
\* field: the error raised when only g is absent is not the error raised
\* when only another field f is absent.
C13_NamesAbsentField ==
    (ReviewPage /\ Missing(input.response.doc) # {}) =>
        /\ output.raised.type = "ValueError"
        /\ output.ret = NoneV
        /\ \A f, g \in Essential :
              (Missing(input.response.doc) = {g} /\ f # g)
                  => extract_review(OnlyMissing(f), ReviewUrl(1, 1)).raised # output.raised

\* C13 (amended): a review page without its title, artist or body text
\* always fails with one and the same ValueError("Missing essential review
\* elements"), whatever else the page holds; nothing is returned and the
\* page was requested once.
C13_EssentialMissing ==
    (ReviewPage /\ Missing(input.response.doc) # {}) =>
        /\ output.raised = EssentialError
        /\ output.ret = NoneV
        /\ OneRequest

C13_Witness ==
    /\ ReviewPage
    /\ Missing(input.response.doc) = {"artist"}
    /\ input.response.doc.score = "number"
    /\ input.response.doc.tracks.section
    /\ output.raised = EssentialError

\* C14: with title, artist and body text present, an optional field that
\* fails to parse becomes None or empty and the extraction succeeds.
C14_OptionalNeverFatal ==
    (ReviewPage /\ Missing(input.response.doc) = {}) =>
        /\ output.raised = NoError
        /\ input.response.doc.score = "words" => output.ret.score = NoneV
        /\ input.response.doc.published \in {"unparsable", "no_datetime"}
               => output.ret.published_date = NoneV

\* C15 as stated: the page with title, artist and body text and nothing
\* else gives a record with score None, date None, no label, no year, an
\* empty genre list under metadata's genres key, and no tracks.
C15_EmptyGenreList ==
    (ReviewPage /\ input.response.doc = BareDoc) =>
        /\ output.raised = NoError
        /\ output.ret.score = NoneV
        /\ output.ret.published_date = NoneV
        /\ {"label", "year"} \cap DOMAIN output.ret.metadata = {}
        /\ "genres" \in DOMAIN output.ret.metadata
        /\ output.ret.metadata["genres"].items = << >>
        /\ output.ret.tracks = << >>

\* C15 (amended): the page with title, artist and body text and nothing
\* else gives a record with score None, date None, an empty metadata
\* mapping (no label, no year and no genres key) and no tracks.
C15_BareRecord ==
    (ReviewPage /\ input.response.doc = BareDoc) =>
        /\ output.raised = NoError
        /\ output.ret.score = NoneV
        /\ output.ret.published_date = NoneV
        /\ DOMAIN output.ret.metadata = {}
        /\ output.ret.tracks = << >>

C15_Witness ==
    /\ ReviewPage
    /\ input.response.doc = BareDoc
    /\ output.ret.type = "dict"

\* C16: the search results are the containers with title, artist and a
\* link target, in document order, whatever their score element holds; a
\* missing or unparsable score gives score None.
Resolves(c) == c.title /\ c.artist /\ c.link = "href"
C16_SearchSubsequence ==
    (input.kind = "search" /\ output # NoneV /\ input.response.status = "ok") =>
        LET cs == input.response.doc.containers
            want == SelectSeq([i \in 1..Len(cs) |-> i], LAMBDA i : Resolves(cs[i]))
        IN  /\ output.raised = NoError
            /\ Len(output.ret) = Len(want)
            /\ \A j \in 1..Len(want) :
                  /\ output.ret[j].container = want[j]
                  /\ output.ret[j].score =
                        IF cs[want[j]].score = "number" THEN Float(10) ELSE NoneV

\* C19: a call of the scraper issues its request once, after one delay and
\* with the 10-second timeout; a transport failure or a non-success status
\* comes out of the call as that error, with no result.
C19_OneRequestNoRetry ==
    (input.kind \in {"review", "search"} /\ output # NoneV) =>
        /\ OneRequest
        /\ input.response.status = "transport_error"
               => output.raised.type = "ConnectionError" /\ output.ret = NoneV
        /\ input.response.status = "http_error"
               => output.raised.type = "HTTPError" /\ output.ret = NoneV

C19_Witness ==
    /\ output # NoneV
    /\ input.kind = "search"
    /\ input.response.status = "http_error"
    /\ output.raised.type = "HTTPError"
    /\ Len(trace) = 2


\* C20: the bucketing gives every polarity the one label whose range holds
\* it (>= 0.6 very positive, [0.2, 0.6) positive, (-0.2, 0.2) neutral,
\* (-0.6, -0.2] negative, <= -0.6 very negative), and a smaller polarity
\* never gets a higher label.
Labels == <<"very negative", "negative", "neutral", "positive", "very positive">>
Rank(label) == CHOOSE i \in 1..Len(Labels) : Labels[i] = label
InRange(label, p) ==
    IF label = "very positive" THEN p >= 240
    ELSE IF label = "positive" THEN 80 <= p /\ p < 240
    ELSE IF label = "neutral" THEN -80 < p /\ p < 80
    ELSE IF label = "negative" THEN -240 < p /\ p <= -80
    ELSE p <= -240
C20_Bucketing ==
    (input.kind = "polarity" /\ output # NoneV) =>
        /\ {Labels[i] : i \in {j \in 1..Len(Labels) : InRange(Labels[j], input.polarity)}}
              = {output.ret}
        /\ \A q \in Polarities :
              q <= input.polarity => Rank(get_assessment(q)) <= Rank(output.ret)

C20_Witness ==
    /\ input.kind = "polarity"
    /\ input.polarity = -80
    /\ output # NoneV
    /\ output.ret = "negative"


\* ---- claims about the scraper's pagination loop (SpecScraper)
RECURSIVE Flatten(_)
Flatten(seqs) == IF seqs = << >> THEN << >> ELSE Head(seqs) \o Flatten(Tail(seqs))
\* The described pages before the first one without links.
EmptyPages(st) == {k \in 1..Len(st.pages) : st.pages[k] = << >>}
Supply(st) ==
    IF EmptyPages(st) = {} THEN Len(st.pages)
    ELSE (CHOOSE k \in EmptyPages(st) : \A j \in EmptyPages(st) : k <= j) - 1
\* The reviews that extract, in page order then in-page order.
Extractable(st) ==
    Flatten([k \in 1..Supply(st) |->
                SelectSeq([i \in 1..Len(st.pages[k]) |-> ReviewUrl(k, i)],
                          LAMBDA u : st.pages[k][u.idx] = "ok")])
UrlsOf(reviews) == [j \in 1..Len(reviews) |-> reviews[j].url]
Returned == sc.pc = "returned"

\* C17: get_latest_reviews(N) asks for listing page sc.page, fetches a
\* review only while fewer than N are accumulated, and returns the first
\* min(N, M) reviews that extract, in page order then in-page order, M
\* being the number that extract before the first page without links;
\* failed reviews are left out and the result has at most N items.
C17_LatestInOrder ==
    [][ /\ \A e \in 1..Len(trace') :
              trace'[e].ev = "get" =>
                 IF trace'[e].url = REVIEWS_URL
                 THEN trace'[e].params.page = sc.page
                 ELSE Len(sc.reviews) < sc.count
        /\ sc'.pc = "returned" =>
              /\ UrlsOf(sc'.ret.items)
                    = SubSeq(Extractable(site), 1, Min(sc.count, Len(Extractable(site))))
              /\ Len(sc'.ret.items) <= sc.count ]_vars

C17_Witness ==
    /\ Returned
    /\ sc.count = MaxCount
    /\ Len(site.pages) = MaxPages
    /\ site.pages[1] = << "fail", "ok" >>
    /\ UrlsOf(sc.ret.items) = << ReviewUrl(1, 2), ReviewUrl(2, 1) >>
    /\ Len(site.pages[2]) = MaxUrls

\* C18 as stated: on an origin whose listing requests succeed,
\* get_latest_reviews(N) eventually returns, for every N.
ListingsSucceed == site.tail # "listing_error"
C18_AlwaysReturns == ListingsSucceed ~> Returned

\* C18 (amended): get_latest_reviews(N) eventually returns without raising
\* when some listing page has no links or N reviews extract before the
\* described pages are used up; when fewer than N extract before the first
\* page without links, it returns those, fewer than N.
RunsOut(st) == EmptyPages(st) # {} \/ st.tail = "empty"
C18_ReturnsWhenSupplyEnds ==
    /\ (RunsOut(site) \/ sc.count <= Len(Extractable(site))) ~> Returned
    /\ [](sc.pc # "raised" \/ ~RunsOut(site))
    /\ []((Returned /\ RunsOut(site) /\ Len(Extractable(site)) < sc.count)
             => Len(sc.ret.items) = Len(Extractable(site)))

C18_Witness ==
    /\ Returned
    /\ sc.count = MaxCount
    /\ Len(site.pages) = MaxPages
    /\ EmptyPages(site) = {}
    /\ site.tail = "empty"
    /\ Len(sc.ret.items) = 1
    /\ sc.page = MaxPages + 1


\* ---- claims about the sentiment analyzer (SpecSentiment)
Analyzed == input.kind = "analyze" /\ output # NoneV
Falsy(text) == text.type = "None" \/ text.words = << >>
TermsDone == input.kind = "terms" /\ output # NoneV
Lexicon == POSITIVE_TERMS \o NEGATIVE_TERMS
LexIndex(term) == CHOOSE i \in 1..Len(Lexicon) : Lexicon[i] = term
\* Occurrences of the term as a word of its own, in any case.
WholeWords(text, term) ==
    Cardinality({i \in 1..Len(text.words) :
                    text.words[i].stem = term /\ ~text.words[i].affix})

\* C21: analyze_text on an empty or absent text returns polarity 0,
\* subjectivity 0, assessment neutral, no key terms and no sentences, and
\* the estimator is not run.
C21_EmptyText ==
    (Analyzed /\ Falsy(input.text)) =>
        /\ output.raised = NoError
        /\ output.estimated = 0
        /\ output.ret = [polarity |-> 0, subjectivity |-> 0, assessment |-> "neutral",
                         key_terms |-> << >>, sentences |-> << >>]

C21_Witness ==
    /\ Analyzed
    /\ input.text = NoneV
    /\ input.est.polarity = 240
    /\ output.ret.assessment = "neutral"

\* C22: before the cut to ten, key_terms has an entry for a lexicon term
\* exactly when the term occurs as a whole word, and the entry's count is
\* the number of those occurrences; so every entry has count >= 1.
C22_WholeWordEntries ==
    TermsDone =>
        /\ \A i \in 1..Len(Lexicon) :
              (\E e \in 1..Len(output.found) : output.found[e].term = Lexicon[i])
                  <=> WholeWords(input.text, Lexicon[i]) >= 1
        /\ \A e \in 1..Len(output.found) :
              output.found[e].count = WholeWords(input.text, output.found[e].term)
        /\ \A e \in 1..Len(output.ret) : output.ret[e].count >= 1

\* C24: key_terms is in non-increasing order of count, entries of equal
\* count are in lexicon order (positive list, then negative list), there
\* are at most ten of them, and extracting again gives the same list.
C24_StableOrder ==
    TermsDone =>
        /\ \A i, j \in 1..Len(output.ret) :
              i < j =>
                 /\ output.ret[i].count >= output.ret[j].count
                 /\ output.ret[i].count = output.ret[j].count
                        => LexIndex(output.ret[i].term) < LexIndex(output.ret[j].term)
        /\ Len(output.ret) <= 10
        /\ extract_key_terms(input.text) = output.ret

C24_Witness ==
    /\ TermsDone
    /\ Len(output.found) > 10
    /\ Len(output.ret) = 10
    /\ output.ret[1].term = "masterpiece" /\ output.ret[1].count = 2
    /\ output.ret[2].term = "dull" /\ output.ret[2].count = 2
    /\ output.ret[3].term = "brilliant" /\ output.ret[3].count = 1

\* C28: the assessment reported by analyze_text is the bucket of the
\* polarity reported beside it (rounded to two decimals), for the text and
\* for every reported sentence.
C28_ReportedBucket ==
    (Analyzed /\ ~Falsy(input.text)) =>
        /\ output.ret.assessment = get_assessment(4 * output.ret.polarity)
        /\ \A i \in 1..Len(output.ret.sentences) :
              output.ret.sentences[i].assessment
                  = get_assessment(4 * output.ret.sentences[i].polarity)


\* ---- the pacing of get_latest_reviews (SpecScraper)
Paces(tr) == Len(SelectSeq(tr, LAMBDA e : e.ev = "pace"))
FetchedReview(tr) == \E e \in 1..Len(tr) : tr[e].ev = "get" /\ tr[e].url.endpoint = "review"

\* C23 as stated: the step that fetches a review takes no pacing delay, and
\* the step that leaves a listing page for the next takes one.
C23_PacedPerPage ==
    [][ /\ FetchedReview(trace') => Paces(trace') = 0
        /\ (sc.pc = "for" /\ sc'.pc = "while") => Paces(trace') = 1 ]_vars

\* C23 (amended): the pacing delay is per item: the step that fetches a
\* review takes one pacing delay, as its last event, when the review was
\* appended and none when it failed; no other step takes one, so nothing
\* but the pre-request delay separates the last fetch of a page from the
\* next listing request.
C23_PacedPerReview ==
    [][ /\ FetchedReview(trace') =>
              /\ Paces(trace') = (IF Len(sc'.reviews) > Len(sc.reviews) THEN 1 ELSE 0)
              /\ Paces(trace') = 1 => trace'[Len(trace')].ev = "pace"
        /\ ~FetchedReview(trace') => Paces(trace') = 0 ]_vars

C23_Witness ==
    /\ sc.pc = "for"
    /\ sc.i = 3
    /\ Len(sc.reviews) = 2
    /\ Paces(trace) = 1
    /\ FetchedReview(trace)


\* ---- URL normalisation (SpecUrl)
SchemeLetters == {"h", "t", "p", "f", "a"}
\* Scheme-prefixed: one or more letters, then "://".
Absolute(url) ==
    \E k \in 1..Len(url) :
        /\ \A i \in 1..k : url[i] \in SchemeLetters
        /\ Len(url) >= k + 3
        /\ SubSeq(url, k + 1, k + 3) = << ":", "/", "/" >>

\* C25: an absolute URL of any scheme comes back unchanged; a path that
\* begins with "/" is put after the site root; anything else, also a string
\* that begins with the letters http without a scheme, is put after the
\* site root and one "/"; the join with the site root has no doubled "/".
C25_Normalize ==
    (input.kind = "url" /\ output # NoneV) =>
        LET root == rstrip_slash(input.base_url)
        IN  IF Absolute(input.url) THEN output.ret = input.url
            ELSE /\ output.ret = IF startswith(input.url, << "/" >>)
                                 THEN root \o input.url
                                 ELSE root \o << "/" >> \o input.url
                 /\ ~startswith(output.ret, root \o << "/", "/" >>)


\* ---- the client's cache key (SpecClient)
\* C26: a get_review(url) with with_sentiment = true that returns a Review
\* returns one whose sentiment is populated, also when an earlier call with
\* with_sentiment = false has cached the review of that url.
C26_SentimentWhenAsked ==
    [][\A u \in Urls : \A o \in Origin(u) :
        (GetReview(u, TRUE, o) /\ last'.raised = "none" /\ last'.ret # NoneV) =>
            last'.ret.sentiment # NoneV
      ]_vars


\* ---- a set racing with a reader's eviction (SpecProcs)
\* C27: when set(k, v) returns true, the file of k holds the entry of v, so
\* that a get(k) made before any later set, clear or expiry returns v,
\* whatever a reader in another process did to the file during the set.
C27_SetSurvivesReader ==
    [][\A p \in Procs :
        (SetDump(p) /\ loc'[p].ret) =>
            files'[get_cache_path(loc[p].key)] = Entry(loc[p].value, loc[p].timestamp)
      ]_vars
====
